---------------------------- MODULE Spec2Model ----------------------------
(***************************************************************************)
(* A model of the adaptive admission engine of Rate-Limiter:               *)
(*   src/rate_limiter.py   TokenBucket (per-client bucket, overridable)    *)
(*   src/ml_classifier.py  MLClassifier (profile, score, classification)   *)
(*   src/app.py            rate_limit_middleware, broadcast, api_stream    *)
(*                                                                         *)
(* Time is counted in whole seconds.  Token counts and refill rates are    *)
(* Python floats; they are kept here in fixed point, in tenths of a token  *)
(* (Unit), which represents every rate of the program exactly (5.0, 3.0,   *)
(* 0.5 and 0.2 tokens per second are 50, 30, 5 and 2 tenths per second).   *)
(***************************************************************************)
EXTENDS Integers, Sequences, FiniteSets, TLC

\* ------------------------------------------------------------------ bounds
\* The clock takes the values 0 .. MaxTime.
MaxTime == 5
\* How many times the wall clock (time.time()) is set back in one behaviour.
MaxSkew == 1
\* How many requests come in after those of the history (the first of them
\* may come in while the last request of the history is being served).
MaxRequests == 1
\* How many seconds the clock advances while the requests are served.
MaxAdvance == 1
\* How many requests a client has sent before the requests of the run.
PreloadLen == 40
\* How many events _stats_broadcaster publishes.
MaxEvents == 3
\* How many calls of record_request are made on the classifier on its own,
\* and how many of them at most with blocked=True.
MaxRecords == 100
MaxBlocked == 8

\* --------------------------------------------------------------- constants
\* RATE and BURST of app.py (the defaults of the environment variables).
RATE == 5
BURST == 10
\* Python's None; `x or y` treats it like 0, which is how it is kept here.
None == 0
\* One token, in the fixed-point unit of the token arithmetic (tenths).
Unit == 10

Clients == {"c1", "c2"}
\* The clients of the runs that exercise the bucket on its own.
BucketClients == {"c1"}

Tenths(x) == x * Unit

Min(a, b) == IF a <= b THEN a ELSE b

\* The request threads of the server, and the daemon thread that runs
\* _stats_broadcaster.
Threads == {"t1", "t2"}
StatsThread == "stats"
Publishers == Threads \cup {StatsThread}
\* The connections to /api/stream.
Listeners == {"l1", "l2", "l3"}

VARIABLES
    now,              \* the reading of time.time()
    horizon,          \* the last reading of the clock the run goes to
    skews,            \* how many times the clock was set back
    REDIS_AVAILABLE,  \* rate_limiter.REDIS_AVAILABLE, fixed at import
    redisUp,          \* whether the Redis server answers now
    redisBuckets,     \* the keys bucket:<user_id> of the Redis server
    local,            \* TokenBucket._local
    lastCall,         \* the last allow_request call and its outcome
    streak,           \* per client: runs of calls the bucket claims speak of
    run,              \* the calls made with one rate and burst, when followed
    profiles,         \* MLClassifier.profiles
    nrec,             \* per client: how many requests record_request recorded
    pc,               \* per thread: where it is in its handler
    req,              \* per request thread: the locals of rate_limit_middleware
    started,          \* how many requests have come in
    history,          \* what client c1 sends first, before anything else
    sseClients,       \* _sse_clients, the queues by their listener
    sseLock,          \* who holds _sse_lock
    queue,            \* per listener: the queue.Queue of its api_stream
    lstate,           \* per listener: where its api_stream is
    bcast,            \* per publisher: the locals of broadcast
    events            \* how many stats events were published

clockVars == <<now, horizon, skews>>
storeVars == <<REDIS_AVAILABLE, redisUp, redisBuckets, local>>
obsVars == <<lastCall, streak, run>>
mwVars == <<profiles, nrec, req, started, history>>
sseVars == <<sseClients, sseLock, queue, lstate, bcast, events>>

vars == <<now, horizon, skews, REDIS_AVAILABLE, redisUp, redisBuckets, local,
          lastCall, streak, run, profiles, nrec, pc, req, started, history,
          sseClients, sseLock, queue, lstate, bcast, events>>

\* ------------------------------------------------------------ TokenBucket
\* A stored bucket: absent, the tuple of _local, or the dict read from Redis.
NoData == [kind |-> "none"]
TupleData(tokens, last_refill) ==
    [kind |-> "tuple", tokens |-> tokens, last_refill |-> last_refill]
DictData(tokens, last_refill) ==
    [kind |-> "dict", tokens |-> tokens, last_refill |-> last_refill]

\* TokenBucket._refill: <<tokens, now>> from the stored data.
EffRate(override_rate) == IF override_rate # None THEN override_rate ELSE Tenths(RATE)
EffBurst(override_burst) == IF override_burst # None THEN override_burst ELSE BURST

\* _refill clamping to the static burst whatever override_burst is.
RefillStaticBurst(data, t, override_rate, override_burst) ==
    LET rate == EffRate(override_rate)
        tokens == IF data.kind = "none" THEN Tenths(BURST) ELSE data.tokens
        last_refill == IF data.kind = "none" THEN t ELSE data.last_refill
        elapsed == t - last_refill
    IN  <<Min(Tenths(BURST), tokens + elapsed * rate), t>>

\* _refill without the burst ceiling.
RefillUnclamped(data, t, override_rate, override_burst) ==
    LET rate == EffRate(override_rate)
        burst == Tenths(EffBurst(override_burst))
        tokens == IF data.kind = "none" THEN burst ELSE data.tokens
        last_refill == IF data.kind = "none" THEN t ELSE data.last_refill
        elapsed == t - last_refill
    IN  <<tokens + elapsed * rate, t>>

\* _refill with the elapsed time taken the wrong way round.
RefillElapsedReversed(data, t, override_rate, override_burst) ==
    LET rate == EffRate(override_rate)
        burst == Tenths(EffBurst(override_burst))
        tokens == IF data.kind = "none" THEN burst ELSE data.tokens
        last_refill == IF data.kind = "none" THEN t ELSE data.last_refill
        elapsed == last_refill - t
    IN  <<Min(burst, tokens + elapsed * rate), t>>

Refill(data, t, override_rate, override_burst) ==
    LET rate == EffRate(override_rate)
        burst == Tenths(EffBurst(override_burst))
        tokens == IF data.kind = "none" THEN burst ELSE data.tokens
        last_refill == IF data.kind = "none" THEN t ELSE data.last_refill
        elapsed == t - last_refill
    IN  <<Min(burst, tokens + elapsed * rate), t>>

\* allow_request leaving last_refill as it was when it rejects.
AllowDecisionKeepsLastRefill(data, t, override_rate, override_burst) ==
    LET rf == Refill(data, t, override_rate, override_burst)
    IN  IF rf[1] >= Unit
        THEN [result |-> TRUE, refilled |-> rf[1], tokens |-> rf[1] - Unit,
              last_refill |-> rf[2]]
        ELSE [result |-> FALSE, refilled |-> rf[1], tokens |-> rf[1],
              last_refill |-> IF data.kind = "none" THEN rf[2]
                              ELSE data.last_refill]

\* allow_request admitting on tokens >= 0 instead of tokens >= 1.
AllowDecisionAtZero(data, t, override_rate, override_burst) ==
    LET rf == Refill(data, t, override_rate, override_burst)
    IN  IF rf[1] >= 0
        THEN [result |-> TRUE, refilled |-> rf[1], tokens |-> rf[1] - Unit,
              last_refill |-> rf[2]]
        ELSE [result |-> FALSE, refilled |-> rf[1], tokens |-> rf[1],
              last_refill |-> rf[2]]

\* TokenBucket.allow_request, the part under self.lock once the data is read:
\* the decision and the (tokens, last_refill) handed to _set_bucket.
AllowDecision(data, t, override_rate, override_burst) ==
    LET rf == Refill(data, t, override_rate, override_burst)
    IN  IF rf[1] >= Unit
        THEN [result |-> TRUE, refilled |-> rf[1], tokens |-> rf[1] - Unit,
              last_refill |-> rf[2]]
        ELSE [result |-> FALSE, refilled |-> rf[1], tokens |-> rf[1],
              last_refill |-> rf[2]]

\* TokenBucket._set_bucket: the JSON dict under the Redis key, or the tuple.
SetRedis(rb, user_id, tokens, last_refill) ==
    [rb EXCEPT ![user_id] = DictData(tokens, last_refill)]
\* _set_bucket keeping one bucket for all clients.
SetLocalOneBucket(loc, user_id, tokens, last_refill) ==
    [c \in DOMAIN loc |-> TupleData(tokens, last_refill)]
SetLocal(loc, user_id, tokens, last_refill) ==
    [loc EXCEPT ![user_id] = TupleData(tokens, last_refill)]

\* TokenBucket._get_bucket, when r.get does not fail: the value under the
\* Redis key, or the entry of _local.
GetBucket(user_id) ==
    IF REDIS_AVAILABLE THEN redisBuckets[user_id] ELSE local[user_id]

\* ------------------------------------------------------------ MLClassifier
NORMAL == "normal"
SUSPICIOUS == "suspicious"
ABUSIVE == "abusive"
BOT == "bot"

WINDOW_SECONDS == 60
SUSPICIOUS_RATE == 40
ABUSIVE_RATE == 100
BURST_WINDOW == 5
BURST_THRESHOLD == 15
BOT_MIN_REQUESTS == 20
SCRAPING_PATH_THRESHOLD == 20
BLOCK_SUSPICIOUS == 3
BLOCK_ABUSIVE == 8
\* deque(maxlen=500) and deque(maxlen=200) of UserProfile.
TIMESTAMPS_MAXLEN == 500
PATHS_MAXLEN == 200
\* user_agent[:120]
UA_MAXLEN == 120

POINTS ==
    [rate_suspicious |-> 20, rate_abusive |-> 40, burst |-> 20,
     bot_timing |-> 35, scraping |-> 15, block_few |-> 10, block_many |-> 25,
     bot_ua |-> 10, no_ua |-> 5]

\* Strings the code looks into (user agents) are sequences of characters.
UpperCase == <<"A", "B", "C", "G", "J", "M", "W">>
LowerCase == <<"a", "b", "c", "g", "j", "m", "w">>
LowerChar(ch) ==
    IF \E i \in 1 .. Len(UpperCase) : UpperCase[i] = ch
    THEN LowerCase[CHOOSE i \in 1 .. Len(UpperCase) : UpperCase[i] = ch]
    ELSE ch
\* str.lower()
Lower(str) == [i \in 1 .. Len(str) |-> LowerChar(str[i])]
\* k in str
Contains(str, k) ==
    \E i \in 1 .. (Len(str) - Len(k) + 1) : SubSeq(str, i, i + Len(k) - 1) = k
\* str.strip() == ""
StripsToEmpty(str) == \A i \in 1 .. Len(str) : str[i] \in {" ", "\t"}
\* str[:n]
Prefix(str, n) == SubSeq(str, 1, Min(Len(str), n))

\* The automation tokens _score looks for, and ApacheBench's.
BOT_UA_KEYS ==
    {<<"c", "u", "r", "l">>, <<"w", "g", "e", "t">>,
     <<"s", "c", "r", "a", "p", "y">>,
     <<"g", "o", "-", "h", "t", "t", "p">>,
     <<"p", "y", "t", "h", "o", "n", "-", "u", "r", "l", "l", "i", "b">>,
     <<"j", "a", "v", "a", "/">>}
APACHEBENCH == <<"a", "p", "a", "c", "h", "e", "b", "e", "n", "c", "h">>

\* " ".join(p.user_agents).lower() contains k.  The agents are joined by a
\* space and no key holds one, so a key lies in the joined string exactly
\* when it lies in one of the agents.
UasContain(user_agents, k) == \E ua \in user_agents : Contains(Lower(ua), k)

\* UserProfile.__init__; exists is whether profiles holds the user_id.
NoProfile ==
    [exists |-> FALSE, timestamps |-> <<>>, paths |-> <<>>,
     user_agents |-> {}, blocked_count |-> 0, classification |-> NORMAL,
     score |-> 0, dynamic_rate |-> None, dynamic_burst |-> None,
     active_signals |-> <<>>]

\* deque.append with maxlen: the oldest entry goes when the deque is full.
DequeAppend(q, x, maxlen) ==
    IF Len(q) >= maxlen THEN Append(Tail(q), x) ELSE Append(q, x)

RECURSIVE SumSeq(_)
SumSeq(q) == IF q = <<>> THEN 0 ELSE Head(q) + SumSeq(Tail(q))

Range(q) == {q[i] : i \in 1 .. Len(q)}

\* The bot-timing test of _score on the timestamps of the last 60 s:
\* cv = stddev / mean < 0.08 with mean > 0.  With n intervals of sum S and
\* sum of squares Q, variance = Q/n - (S/n)^2, so cv < 0.08 is
\* n*Q - S^2 < 0.0064 * S^2, that is 625 * (n*Q - S^2) < 4 * S^2.
BotTiming(recent_60) ==
    /\ Len(recent_60) >= BOT_MIN_REQUESTS
    /\ LET intervals == [i \in 1 .. Len(recent_60) - 1 |->
                            recent_60[i + 1] - recent_60[i]]
           n == Len(intervals)
           S == SumSeq(intervals)
           Q == SumSeq([i \in 1 .. n |-> intervals[i] * intervals[i]])
       IN  /\ n > 0
           /\ S > 0
           /\ 625 * (n * Q - S * S) < 4 * S * S

\* MLClassifier._score: <<signals, score>>.
Score(p, t) ==
    LET recent_60 == SelectSeq(p.timestamps, LAMBDA x : t - x <= WINDOW_SECONDS)
        rate_60 == Len(recent_60)
        burst == Len(SelectSeq(p.timestamps, LAMBDA x : t - x <= BURST_WINDOW))
        s1 == IF rate_60 >= ABUSIVE_RATE THEN <<"rate_abusive">>
              ELSE IF rate_60 >= SUSPICIOUS_RATE THEN <<"rate_suspicious">>
              ELSE <<>>
        s2 == IF burst >= BURST_THRESHOLD THEN <<"burst">> ELSE <<>>
        s3 == IF BotTiming(recent_60) THEN <<"bot_timing">> ELSE <<>>
        s4 == IF Cardinality(Range(p.paths)) >= SCRAPING_PATH_THRESHOLD
              THEN <<"scraping">> ELSE <<>>
        s5 == IF p.blocked_count >= BLOCK_ABUSIVE THEN <<"block_many">>
              ELSE IF p.blocked_count >= BLOCK_SUSPICIOUS THEN <<"block_few">>
              ELSE <<>>
        keyed == \E k \in BOT_UA_KEYS : UasContain(p.user_agents, k)
        bench == /\ UasContain(p.user_agents, APACHEBENCH)
                 /\ rate_60 >= SUSPICIOUS_RATE
        s6 == IF keyed \/ bench THEN <<"bot_ua">> ELSE <<>>
        s7 == IF \E ua \in p.user_agents : StripsToEmpty(ua)
              THEN <<"no_ua">> ELSE <<>>
        signals == s1 \o s2 \o s3 \o s4 \o s5 \o s6 \o s7
        \* score += POINTS[...] at every place a signal is appended, and once
        \* more for ApacheBench when bot_ua is already in the list
        score == SumSeq([i \in 1 .. Len(signals) |-> POINTS[signals[i]]])
                 + (IF keyed /\ bench THEN POINTS["bot_ua"] ELSE 0)
    IN  <<signals, Min(score, 100)>>

\* MLClassifier._classify without the bot_timing condition.
ClassifyByScoreOnly(score, signals) ==
    IF score >= 70 THEN BOT
    ELSE IF score >= 40 THEN SUSPICIOUS
    ELSE NORMAL

\* MLClassifier._classify
Classify(score, signals) ==
    IF score >= 70 /\ "bot_timing" \in Range(signals) THEN BOT
    ELSE IF score >= 70 THEN ABUSIVE
    ELSE IF score >= 40 THEN SUSPICIOUS
    ELSE NORMAL

\* _dynamic_limits with the rows of Bot and Abusive taken for one another.
DynamicLimitsRowsSwapped(classification) ==
    IF classification = BOT THEN <<5, 2>>
    ELSE IF classification = ABUSIVE THEN <<2, 1>>
    ELSE IF classification = SUSPICIOUS THEN <<30, 5>>
    ELSE <<None, None>>

\* MLClassifier._dynamic_limits: <<rate, burst>>, the rate in tenths of a
\* token per second (0.2, 0.5 and 3.0 tokens per second).
DynamicLimits(classification) ==
    IF classification = BOT THEN <<2, 1>>
    ELSE IF classification = ABUSIVE THEN <<5, 2>>
    ELSE IF classification = SUSPICIOUS THEN <<30, 5>>
    ELSE <<None, None>>

\* p.blocked_count = 1 in the place of p.blocked_count += 1.
BlockedCountSetToOne(n, blocked) == IF blocked THEN 1 ELSE n

\* if blocked: p.blocked_count += 1
BlockedCount(n, blocked) == IF blocked THEN n + 1 ELSE n

\* MLClassifier.record_request under self.lock, on the profile of user_id.
\* (The counters of get_global_stats and the snapshot _persist writes are
\* read by no admission decision and are left out; _persist swallows every
\* failure of the store.)
RecordRequest(p, t, path, user_agent, blocked) ==
    LET q == [p EXCEPT
                 !.exists = TRUE,
                 !.timestamps = DequeAppend(@, t, TIMESTAMPS_MAXLEN),
                 !.paths = DequeAppend(@, path, PATHS_MAXLEN),
                 !.user_agents = IF Len(user_agent) > 0
                                 THEN @ \cup {Prefix(user_agent, UA_MAXLEN)}
                                 ELSE @,
                 !.blocked_count = BlockedCount(@, blocked)]
        sc == Score(q, t)
        classification == Classify(sc[2], sc[1])
        limits == DynamicLimits(classification)
    IN  [q EXCEPT !.score = sc[2], !.classification = classification,
                  !.active_signals = sc[1], !.dynamic_rate = limits[1],
                  !.dynamic_burst = limits[2]]

\* ------------------------------------------- what the bucket claims observe
\* burst: the burst ceiling effective in the call; over: the bucket held more
\* tokens than the override_burst passed; forward: the clock had not gone back
\* since the bucket was written; refilled: the tokens after _refill; at: the
\* time of the call.
NoCall == [valid |-> FALSE, c |-> "c1", burst |-> 0, over |-> FALSE,
           forward |-> TRUE, refilled |-> 0, result |-> FALSE,
           raised |-> FALSE, at |-> 0]

NoStreak == [newOn |-> FALSE, newBurst |-> 0, newCalls |-> 0, newAdm |-> 0,
             clampOn |-> FALSE, clampBurst |-> 0, clampAdm |-> 0,
             waitOn |-> FALSE, waitRate |-> 0, waitBurst |-> 0,
             waitCalls |-> 0, waitAdm |-> 0]

Bit(b) == IF b THEN 1 ELSE 0

\* The runs of calls of one client after a call with outcome d on data.
NextStreak(s, data, t, override_rate, override_burst, d) ==
    LET rate == EffRate(override_rate)
        burst == EffBurst(override_burst)
        had == data.kind # "none"
        elapsed == IF had THEN t - data.last_refill ELSE 0
        a == Bit(d.result)
        \* calls since the bucket was created, same burst, no time elapsing
        newStart == ~had
        newGo == had /\ s.newOn /\ s.newBurst = burst /\ elapsed = 0
        \* calls since the tokens exceeded the override burst, back to back
        clampStart == had /\ override_burst # None
                          /\ data.tokens > Tenths(override_burst)
        clampGo == had /\ s.clampOn /\ elapsed = 0
        \* calls since a pause of at least burst/rate seconds
        waitStart == had /\ data.tokens >= 0 /\ data.tokens <= Tenths(burst)
                         /\ elapsed >= 0 /\ elapsed * rate >= Tenths(burst)
        waitGo == had /\ s.waitOn /\ s.waitRate = rate /\ s.waitBurst = burst
                      /\ elapsed >= 0 /\ s.waitCalls < burst
    IN  [newOn |-> newStart \/ newGo,
         newBurst |-> IF newStart \/ newGo THEN burst ELSE 0,
         newCalls |-> IF newStart THEN 1
                      ELSE IF newGo THEN Min(s.newCalls + 1, burst + 1) ELSE 0,
         newAdm |-> IF newStart THEN a
                    ELSE IF newGo THEN Min(s.newAdm + a, burst + 1) ELSE 0,
         clampOn |-> clampStart \/ clampGo,
         clampBurst |-> IF clampStart THEN override_burst
                        ELSE IF clampGo THEN s.clampBurst ELSE 0,
         clampAdm |-> IF clampStart THEN a
                      ELSE IF clampGo THEN Min(s.clampAdm + a, s.clampBurst + 1)
                      ELSE 0,
         waitOn |-> waitStart \/ waitGo,
         waitRate |-> IF waitStart \/ waitGo THEN rate ELSE 0,
         waitBurst |-> IF waitStart \/ waitGo THEN burst ELSE 0,
         waitCalls |-> IF waitStart THEN 1
                       ELSE IF waitGo THEN s.waitCalls + 1 ELSE 0,
         waitAdm |-> IF waitStart THEN a
                     ELSE IF waitGo THEN s.waitAdm + a ELSE 0]

\* The calls of a behaviour in which every call is made with the same
\* overrides and the clock does not go back (on: there is such a run to follow).
\* rej: the rejected calls in a row so far; rejBase: the tokens the first of
\* them stored less what the rate credits from time 0 to that call; rejTimes:
\* at how many times (up to 3) they were made.  win: the calls since some call
\* made at time winT0, of which winAdm were admitted.
NoRun == [on |-> FALSE, override_rate |-> None, override_burst |-> None,
          rejOn |-> FALSE, rejBase |-> 0, rejTimes |-> 0,
          winOn |-> FALSE, winT0 |-> 0, winAdm |-> 0]

\* The run after a call with outcome d on data; mark: the window of calls
\* starts anew with this call.
NextRun(r, data, t, d, mark) ==
    IF ~r.on THEN r
    ELSE LET rate == EffRate(r.override_rate)
             elapsed == IF data.kind # "none" THEN t - data.last_refill ELSE 0
             a == Bit(d.result)
             rejGo == r.rejOn /\ ~d.result
             rejStart == ~r.rejOn /\ ~d.result
             winGo == r.winOn /\ ~mark
         IN  [r EXCEPT
                 !.rejOn = ~d.result,
                 !.rejBase = IF rejGo THEN @
                             ELSE IF rejStart THEN d.tokens - rate * t ELSE 0,
                 !.rejTimes = IF rejGo THEN Min(@ + Bit(elapsed > 0), 3)
                              ELSE IF rejStart THEN 1 ELSE 0,
                 !.winOn = mark \/ winGo,
                 !.winT0 = IF mark THEN t ELSE IF winGo THEN @ ELSE 0,
                 !.winAdm = IF mark THEN a ELSE IF winGo THEN @ + a ELSE 0]

\* ------------------------------------------------- rate_limit_middleware
\* The locals of one run of rate_limit_middleware.  readN and scoredN count
\* the client's recorded requests when get_profile ran and when record_request
\* returned; stale says that allow_request was handed overrides that were no
\* longer those of the profile.
NoRequest ==
    [status |-> "none", user_id |-> "c1", path |-> 0, user_agent |-> <<>>,
     dyn_rate |-> None, dyn_burst |-> None, allowed |-> FALSE,
     classification |-> NORMAL, score |-> 0, readN |-> 0, scoredN |-> 0,
     stale |-> FALSE]

\* The locals of one run of broadcast: the message, the place in the loop
\* over _sse_clients, the list dead, and the listeners whose put succeeded.
\* seen: per listener the loop has come to, whether its queue was full then;
\* raised: an exception left broadcast.
NoBroadcast ==
    [msg |-> 0, idx |-> 0, dead |-> <<>>, sent |-> <<>>, seen |-> <<>>,
     raised |-> FALSE]

\* The calls of rate_limit_middleware in the order it makes them; broadcast
\* starts by taking _sse_lock.
MwOrderScoreFirst == <<"record", "get_profile", "allow", "bcast_acquire">>
MwOrder == <<"get_profile", "allow", "record", "bcast_acquire">>

MwFirst == MwOrder[1]
MwAfter(step) ==
    MwOrder[(CHOOSE i \in 1 .. Len(MwOrder) : MwOrder[i] = step) + 1]

\* profile["dynamic_rate"] if profile else None, and the burst likewise.
ProfileOverrides(p) ==
    IF p.exists THEN <<p.dynamic_rate, p.dynamic_burst>> ELSE <<None, None>>

\* User-Agent headers: none (""), blank, and some agents.
UA_EMPTY == <<>>
UA_BLANK == <<" ">>
UA_CURL == <<"c", "u", "r", "l", "/", "8">>
UA_WGET == <<"W", "g", "e", "t">>
UA_AB == <<"A", "p", "a", "c", "h", "e", "B", "e", "n", "c", "h">>

\* What client c1 may send before anything else happens: n requests, one
\* after the other, one every spacing seconds from time 0, each for another
\* path (1, 2, ...), with one user agent.
NoHistory == [n |-> 0, spacing |-> 0, user_agent |-> UA_EMPTY]
Histories ==
    {NoHistory,
     [n |-> PreloadLen, spacing |-> 1, user_agent |-> UA_CURL],
     [n |-> PreloadLen, spacing |-> 0, user_agent |-> UA_WGET]}
HistoryEnd(h) == IF h.n = 0 THEN 0 ELSE (h.n - 1) * h.spacing

\* The requests of the history are still coming in.
Warming == started < history.n

\* The path and the agents of the requests that come in after the history.
RequestPaths == {PreloadLen + 1}
UserAgents == {UA_EMPTY, UA_BLANK, UA_CURL}

\* A request comes in: user_id, path and the User-Agent header ("" without).
Start(t, user_id, path, user_agent) ==
    /\ pc[t] = "idle"
    /\ IF Warming
       THEN /\ t = "t1" /\ user_id = "c1"
            /\ path = started + 1
            /\ user_agent = history.user_agent
            /\ now = started * history.spacing
       ELSE /\ started < history.n + MaxRequests
            /\ path \in RequestPaths
            /\ user_agent \in UserAgents
    /\ started' = started + 1
    /\ req' = [req EXCEPT ![t] = [NoRequest EXCEPT !.status = "running",
                  !.user_id = user_id, !.path = path,
                  !.user_agent = user_agent]]
    /\ pc' = [pc EXCEPT ![t] = MwFirst]
    /\ UNCHANGED <<clockVars, storeVars, obsVars, profiles, nrec, sseVars, history>>

\* classifier.get_profile(user_id) and the two overrides read from it.
MwGetProfile(t) ==
    /\ pc[t] = "get_profile"
    /\ LET o == ProfileOverrides(profiles[req[t].user_id])
       IN  req' = [req EXCEPT ![t].dyn_rate = o[1], ![t].dyn_burst = o[2],
                              ![t].readN = nrec[req[t].user_id]]
    /\ pc' = [pc EXCEPT ![t] = MwAfter("get_profile")]
    /\ UNCHANGED <<clockVars, storeVars, obsVars, profiles, nrec, started,
                   sseVars, history>>

\* _set_bucket on the store in use.
WriteBucket(user_id, tokens, last_refill) ==
    IF REDIS_AVAILABLE
    THEN /\ redisBuckets' = SetRedis(redisBuckets, user_id, tokens, last_refill)
         /\ UNCHANGED local
    ELSE /\ local' = SetLocal(local, user_id, tokens, last_refill)
         /\ UNCHANGED redisBuckets

\* limiter.allow_request(user_id, dyn_rate, dyn_burst) returns.
MwAllowReturns(t) ==
    /\ pc[t] = "allow"
    /\ REDIS_AVAILABLE => redisUp
    /\ LET r == req[t]
           d == AllowDecision(GetBucket(r.user_id), now, r.dyn_rate, r.dyn_burst)
       IN  /\ WriteBucket(r.user_id, d.tokens, d.last_refill)
           /\ req' = [req EXCEPT ![t].allowed = d.result,
                         ![t].stale = (<<r.dyn_rate, r.dyn_burst>> #
                                       ProfileOverrides(profiles[r.user_id]))]
    /\ pc' = [pc EXCEPT ![t] = MwAfter("allow")]
    /\ UNCHANGED <<clockVars, REDIS_AVAILABLE, redisUp, obsVars, profiles, nrec,
                   started, sseVars, history>>

\* limiter.allow_request raises (the Redis call fails): the exception leaves
\* rate_limit_middleware, the request ends in an error response.
MwAllowRaises(t) ==
    /\ pc[t] = "allow"
    /\ ~Warming
    /\ REDIS_AVAILABLE
    /\ redisUp' = FALSE
    /\ req' = [req EXCEPT ![t].status = "raised"]
    /\ pc' = [pc EXCEPT ![t] = "idle"]
    /\ UNCHANGED <<clockVars, REDIS_AVAILABLE, redisBuckets, local, obsVars,
                   profiles, nrec, started, sseVars, history>>

\* classifier.record_request(user_id, path, user_agent, blocked=not allowed)
MwRecord(t) ==
    /\ pc[t] = "record"
    /\ LET r == req[t]
           p == RecordRequest(profiles[r.user_id], now, r.path, r.user_agent,
                              ~r.allowed)
       IN  /\ profiles' = [profiles EXCEPT ![r.user_id] = p]
           /\ nrec' = [nrec EXCEPT ![r.user_id] = @ + 1]
           /\ req' = [req EXCEPT ![t].classification = p.classification,
                                 ![t].score = p.score,
                                 ![t].scoredN = nrec[r.user_id] + 1]
    /\ pc' = [pc EXCEPT ![t] = MwAfter("record")]
    /\ UNCHANGED <<clockVars, storeVars, obsVars, started, sseVars, history>>

\* ------------------------------------------------- broadcast, api_stream
\* queue.Queue(maxsize=100)
QUEUE_MAXSIZE == 100

\* q.put_nowait(msg): the queue with msg, or full (queue.Full is raised).
PutNowaitOneShort(q, msg) ==
    IF Len(q) >= QUEUE_MAXSIZE - 1
    THEN [full |-> TRUE, q |-> q]
    ELSE [full |-> FALSE, q |-> Append(q, msg)]
PutNowait(q, msg) ==
    IF Len(q) >= QUEUE_MAXSIZE
    THEN [full |-> TRUE, q |-> q]
    ELSE [full |-> FALSE, q |-> Append(q, msg)]

RECURSIVE Count(_, _)
Count(list, x) ==
    IF list = <<>> THEN 0
    ELSE Bit(Head(list) = x) + Count(Tail(list), x)

\* list.remove(x): the list without the first x (x is in the list).
RECURSIVE Remove(_, _)
Remove(list, x) ==
    IF list = <<>> THEN <<>>
    ELSE IF Head(list) = x THEN Tail(list)
    ELSE <<Head(list)>> \o Remove(Tail(list), x)

\* for q in dead: _sse_clients.remove(q); raised when a q is not in the list.
RECURSIVE RemoveAll(_, _)
RemoveAll(list, dead) ==
    IF dead = <<>> THEN [raised |-> FALSE, list |-> list]
    ELSE IF Count(list, Head(dead)) = 0 THEN [raised |-> TRUE, list |-> list]
    ELSE RemoveAll(Remove(list, Head(dead)), Tail(dead))

\* broadcast: with _sse_lock (the lock is taken).
BcastAcquire(t) ==
    /\ pc[t] = "bcast_acquire"
    /\ sseLock = "free"
    /\ sseLock' = t
    /\ bcast' = [bcast EXCEPT ![t] = [NoBroadcast EXCEPT !.msg = bcast[t].msg,
                                                         !.idx = 1]]
    /\ pc' = [pc EXCEPT ![t] = "bcast_put"]
    /\ UNCHANGED <<clockVars, storeVars, obsVars, mwVars, sseClients, queue,
                   lstate, events>>

\* One turn of "for q in _sse_clients": q.put_nowait(msg), and
\* dead.append(q) on any exception, queue.Full included.
BcastPut(t) ==
    /\ pc[t] = "bcast_put"
    /\ bcast[t].idx <= Len(sseClients)
    /\ LET l == sseClients[bcast[t].idx]
           r == PutNowait(queue[l], bcast[t].msg)
       IN  /\ queue' = [queue EXCEPT ![l] = r.q]
           /\ bcast' = [bcast EXCEPT
                  ![t].idx = @ + 1,
                  ![t].seen = Append(@, [l |-> l,
                                         full |-> Len(queue[l]) >= QUEUE_MAXSIZE]),
                  ![t].sent = IF r.full THEN @ ELSE Append(@, l),
                  ![t].dead = IF r.full THEN Append(@, l) ELSE @]
    /\ UNCHANGED <<clockVars, storeVars, obsVars, mwVars, pc, sseClients,
                   sseLock, lstate, events>>

\* The loop is over: the dead queues are removed, the lock is released and
\* broadcast returns (to rate_limit_middleware, which then answers, or to
\* _stats_broadcaster, which catches what it raised).
BcastFinish(t) ==
    /\ pc[t] = "bcast_put"
    /\ bcast[t].idx > Len(sseClients)
    /\ LET r == RemoveAll(sseClients, bcast[t].dead)
       IN  /\ sseClients' = r.list
           /\ bcast' = [bcast EXCEPT ![t].raised = r.raised]
           /\ req' = IF t \in Threads
                     THEN [req EXCEPT ![t].status =
                              IF r.raised THEN "raised" ELSE "done"]
                     ELSE req
    /\ sseLock' = "free"
    /\ pc' = [pc EXCEPT ![t] = "idle"]
    /\ UNCHANGED <<clockVars, storeVars, obsVars, profiles, nrec, started,
                   queue, lstate, events,
                   history>>

\* _stats_broadcaster wakes up from time.sleep(2) and calls broadcast.
StatsWake ==
    /\ pc[StatsThread] = "idle"
    /\ events < MaxEvents
    /\ events' = events + 1
    /\ bcast' = [bcast EXCEPT ![StatsThread].msg = events + 1]
    /\ pc' = [pc EXCEPT ![StatsThread] = "bcast_acquire"]
    /\ UNCHANGED <<clockVars, storeVars, obsVars, mwVars, sseClients, sseLock,
                   queue, lstate>>

\* api_stream: a new queue, appended to _sse_clients under _sse_lock.
Subscribe(l) ==
    /\ lstate[l] = "none"
    /\ sseLock = "free"
    /\ queue' = [queue EXCEPT ![l] = <<>>]
    /\ sseClients' = Append(sseClients, l)
    /\ lstate' = [lstate EXCEPT ![l] = "streaming"]
    /\ UNCHANGED <<clockVars, storeVars, obsVars, mwVars, pc, sseLock, bcast,
                   events>>

\* generate: q.get returns a message, which is sent to the client.  (On a
\* timeout a ping is sent and nothing changes.)
Get(l) ==
    /\ lstate[l] = "streaming"
    /\ queue[l] # <<>>
    /\ queue' = [queue EXCEPT ![l] = Tail(@)]
    /\ UNCHANGED <<clockVars, storeVars, obsVars, mwVars, pc, sseClients,
                   sseLock, lstate, bcast, events>>

\* generate: GeneratorExit (the client went away); the queue is removed from
\* _sse_clients under _sse_lock if it is still there.
Close(l) ==
    /\ lstate[l] = "streaming"
    /\ sseLock = "free"
    /\ sseClients' = IF Count(sseClients, l) > 0 THEN Remove(sseClients, l)
                     ELSE sseClients
    /\ lstate' = [lstate EXCEPT ![l] = "none"]
    /\ UNCHANGED <<clockVars, storeVars, obsVars, mwVars, pc, sseLock, queue,
                   bcast, events>>

\* --------------------------------------------------- the bucket on its own
\* The override values a caller may pass: None or a tier's value.
Overrides == {<<None, None>>, <<2, 1>>, <<5, 2>>, <<30, 5>>}

\* allow_request returns: the data was read and the bucket written.
AllowReturns(user_id, override_rate, override_burst) ==
    /\ REDIS_AVAILABLE => redisUp
    /\ LET data == GetBucket(user_id)
           d == AllowDecision(data, now, override_rate, override_burst)
       IN  /\ WriteBucket(user_id, d.tokens, d.last_refill)
           /\ lastCall' = [valid |-> TRUE, c |-> user_id,
                           burst |-> EffBurst(override_burst),
                           over |-> /\ data.kind # "none"
                                    /\ override_burst # None
                                    /\ data.tokens > Tenths(override_burst),
                           forward |-> \/ data.kind = "none"
                                       \/ now >= data.last_refill,
                           refilled |-> d.refilled,
                           result |-> d.result, raised |-> FALSE,
                           at |-> now]
           /\ streak' = [streak EXCEPT ![user_id] =
                           NextStreak(@, data, now, override_rate,
                                      override_burst, d)]
           /\ \E mark \in BOOLEAN : run' = NextRun(run, data, now, d, mark)
    /\ UNCHANGED <<clockVars, REDIS_AVAILABLE, redisUp, mwVars, pc, sseVars>>

\* allow_request raises: r.get or r.setex fails (nothing catches it), either
\* because the server is already lost or because it is lost during the call.
AllowRaises(user_id, override_rate, override_burst) ==
    /\ REDIS_AVAILABLE
    /\ redisUp' = FALSE
    /\ lastCall' = [NoCall EXCEPT !.valid = TRUE, !.c = user_id,
                    !.burst = EffBurst(override_burst), !.raised = TRUE]
    /\ UNCHANGED <<clockVars, REDIS_AVAILABLE, redisBuckets, local, streak, run,
                   mwVars, pc, sseVars>>

AllowRequest(user_id, override_rate, override_burst) ==
    \/ AllowReturns(user_id, override_rate, override_burst)
    \/ AllowRaises(user_id, override_rate, override_burst)

\* time.time() moves on.
Tick ==
    /\ now < horizon
    /\ Warming => /\ now < started * history.spacing
                  /\ \A t \in Threads : pc[t] = "idle"
    /\ now' = now + 1
    /\ UNCHANGED <<horizon, skews, storeVars, obsVars, mwVars, pc, sseVars>>

\* time.time() is the wall clock: it is set back (NTP, an operator).
ClockSetBack ==
    /\ skews < MaxSkew
    /\ \E t \in 0 .. now - 1 : now' = t
    /\ skews' = skews + 1
    /\ UNCHANGED <<horizon, storeVars, obsVars, mwVars, pc, sseVars>>

\* The Redis server comes back.
RedisRestored ==
    /\ REDIS_AVAILABLE
    /\ ~redisUp
    /\ redisUp' = TRUE
    /\ UNCHANGED <<clockVars, REDIS_AVAILABLE, redisBuckets, local, obsVars,
                   mwVars, pc, sseVars>>

\* The runs that may be followed: one per pair of overrides, or none.
Runs ==
    {NoRun} \cup {[NoRun EXCEPT !.on = TRUE, !.override_rate = o[1],
                                !.override_burst = o[2]] : o \in Overrides}

\* No call made yet, no request under way, the threads idle.
IdleInit ==
    /\ skews = 0
    /\ lastCall = NoCall
    /\ streak = [c \in Clients |-> NoStreak]
    /\ run \in Runs
    /\ pc = [t \in Publishers |-> "idle"]
    /\ req = [t \in Threads |-> NoRequest]
    /\ started = 0
    /\ sseLock = "free"
    /\ bcast = [t \in Publishers |-> NoBroadcast]
    /\ events = 0

\* No listener connected.
NoListenerInit ==
    /\ sseClients = <<>>
    /\ queue = [l \in Listeners |-> <<>>]
    /\ lstate = [l \in Listeners |-> "none"]

BucketInit ==
    /\ IdleInit /\ run = NoRun
    /\ NoListenerInit
    /\ now = 0
    /\ horizon = MaxTime
    /\ history = NoHistory
    /\ REDIS_AVAILABLE \in BOOLEAN
    /\ redisUp = REDIS_AVAILABLE
    /\ redisBuckets = [c \in Clients |-> NoData]
    /\ local = [c \in Clients |-> NoData]
    /\ profiles = [c \in Clients |-> NoProfile]
    /\ nrec = [c \in Clients |-> 0]

BucketNext ==
    \/ \E c \in BucketClients, o \in Overrides : AllowRequest(c, o[1], o[2])
    \/ Tick
    \/ ClockSetBack
    \/ RedisRestored

SpecBucket == BucketInit /\ [][BucketNext]_vars

\* The bucket called with one rate and burst throughout, the clock not going
\* back (allow_request runs under self.lock: the calls of the threads come
\* one after the other).
RateInit ==
    /\ IdleInit /\ run # NoRun
    /\ NoListenerInit
    /\ now = 0
    /\ horizon = MaxTime
    /\ history = NoHistory
    /\ REDIS_AVAILABLE \in BOOLEAN
    /\ redisUp = REDIS_AVAILABLE
    /\ redisBuckets = [c \in Clients |-> NoData]
    /\ local = [c \in Clients |-> NoData]
    /\ profiles = [c \in Clients |-> NoProfile]
    /\ nrec = [c \in Clients |-> 0]

RateNext ==
    \/ \E c \in BucketClients :
           AllowRequest(c, run.override_rate, run.override_burst)
    \/ Tick
    \/ RedisRestored

SpecRate == RateInit /\ [][RateNext]_vars


\* ------------------------------------------------------ the request path
\* The server as constructed; client c1 will first send one of the histories.
\* (Redis is in use only in the runs without a history.)
Init ==
    /\ IdleInit /\ run = NoRun
    /\ NoListenerInit
    /\ now = 0
    /\ history \in Histories
    /\ horizon = HistoryEnd(history) + MaxAdvance
    /\ REDIS_AVAILABLE \in (IF history = NoHistory THEN BOOLEAN ELSE {FALSE})
    /\ redisUp = REDIS_AVAILABLE
    /\ redisBuckets = [c \in Clients |-> NoData]
    /\ local = [c \in Clients |-> NoData]
    /\ profiles = [c \in Clients |-> NoProfile]
    /\ nrec = [c \in Clients |-> 0]

Next ==
    \/ \E t \in Threads, c \in Clients, path \in 1 .. PreloadLen + 1,
          user_agent \in UserAgents \cup {UA_WGET} :
           Start(t, c, path, user_agent)
    \/ \E t \in Threads : MwGetProfile(t)
    \/ \E t \in Threads : MwAllowReturns(t)
    \/ \E t \in Threads : MwAllowRaises(t)
    \/ \E t \in Threads : MwRecord(t)
    \/ \E t \in Threads : BcastAcquire(t)
    \/ \E t \in Threads : BcastFinish(t)
    \/ Tick
    \/ RedisRestored

Spec == Init /\ [][Next]_vars

\* ------------------------------------------------ the broadcaster on its own
\* The listeners connected at the start, in the order they connected.  The
\* first may be a slow consumer: its queue holds a backlog of request events.
Backlogs == {0, QUEUE_MAXSIZE - 1, QUEUE_MAXSIZE}

BroadcastInit ==
    /\ IdleInit /\ run = NoRun
    /\ now = 0
    /\ horizon = 0
    /\ history = NoHistory
    /\ REDIS_AVAILABLE = FALSE
    /\ redisUp = FALSE
    /\ redisBuckets = [c \in Clients |-> NoData]
    /\ local = [c \in Clients |-> NoData]
    /\ profiles = [c \in Clients |-> NoProfile]
    /\ nrec = [c \in Clients |-> 0]
    /\ \E on \in SUBSET Listeners, k \in Backlogs :
           /\ lstate = [l \in Listeners |->
                           IF l \in on THEN "streaming" ELSE "none"]
           /\ sseClients = SelectSeq(<<"l1", "l2", "l3">>, LAMBDA l : l \in on)
           /\ queue = [l \in Listeners |->
                          IF l = "l1" /\ l \in on THEN [i \in 1 .. k |-> 0]
                          ELSE <<>>]

BroadcastNext ==
    \/ StatsWake
    \/ BcastAcquire(StatsThread)
    \/ BcastPut(StatsThread)
    \/ BcastFinish(StatsThread)
    \/ \E l \in Listeners : Subscribe(l)
    \/ \E l \in Listeners : Get(l)
    \/ \E l \in Listeners : Close(l)

SpecBroadcast == BroadcastInit /\ [][BroadcastNext]_vars

\* ------------------------------------------------ the classifier on its own
\* The requests recorded in one run are those of one client, one every
\* spacing seconds from time 0: c1 asks for another path each time, c2 always
\* for the same one; the agent and blocked are any.
RecordPlans ==
    {[n |-> MaxRecords, spacing |-> s, user_agent |-> UA_EMPTY] : s \in {0, 1}}
RecordAgents == {UA_EMPTY, UA_BLANK, UA_CURL, UA_AB}
PathOf(user_id, k) == IF user_id = "c1" THEN k ELSE 1

\* classifier.record_request(user_id, path, user_agent, blocked) is called
\* and returns.
RecordRequestCall(user_id, user_agent, blocked) ==
    /\ Warming
    /\ now = started * history.spacing
    /\ \A c \in Clients \ {user_id} : nrec[c] = 0
    /\ blocked => profiles[user_id].blocked_count < MaxBlocked
    /\ profiles' = [profiles EXCEPT ![user_id] =
                       RecordRequest(@, now, PathOf(user_id, started + 1),
                                     user_agent, blocked)]
    /\ nrec' = [nrec EXCEPT ![user_id] = @ + 1]
    /\ started' = started + 1
    /\ UNCHANGED <<clockVars, storeVars, obsVars, pc, req, history, sseVars>>

ClassifierInit ==
    /\ IdleInit /\ run = NoRun
    /\ NoListenerInit
    /\ now = 0
    /\ history \in RecordPlans
    /\ horizon = HistoryEnd(history)
    /\ REDIS_AVAILABLE = FALSE
    /\ redisUp = FALSE
    /\ redisBuckets = [c \in Clients |-> NoData]
    /\ local = [c \in Clients |-> NoData]
    /\ profiles = [c \in Clients |-> NoProfile]
    /\ nrec = [c \in Clients |-> 0]

ClassifierNext ==
    \/ \E c \in Clients, user_agent \in RecordAgents, blocked \in BOOLEAN :
           RecordRequestCall(c, user_agent, blocked)
    \/ Tick

SpecClassifier == ClassifierInit /\ [][ClassifierNext]_vars

\* ------------------------------------------------------- the bucket claims
\* TokenBucket.get_tokens for a client that has a bucket.
StoredTokens(c) == GetBucket(c).tokens

\* C1: after every allow_request call the token count stored for that client
\* is >= 0 and <= the burst ceiling effective in that call.
C1_TokensWithinBurst ==
    (lastCall.valid /\ ~lastCall.raised) =>
        /\ StoredTokens(lastCall.c) >= 0
        /\ StoredTokens(lastCall.c) <= Tenths(lastCall.burst)

\* C6: a bucket holding more tokens than the override_burst passed is clamped
\* to that override_burst in that very call, before the admission test (so with
\* a clock that has not gone back the call is admitted out of exactly
\* override_burst tokens), and from that call on at most override_burst
\* requests are admitted back to back.
C6_ClampedInTheCall ==
    /\ (lastCall.valid /\ ~lastCall.raised /\ lastCall.over) =>
           /\ lastCall.refilled <= Tenths(lastCall.burst)
           /\ lastCall.forward =>
                  /\ lastCall.refilled = Tenths(lastCall.burst)
                  /\ lastCall.result
                  /\ StoredTokens(lastCall.c) = Tenths(lastCall.burst) - Unit
    /\ \A c \in Clients :
           streak[c].clampOn => streak[c].clampAdm <= streak[c].clampBurst

\* A bucket with banked tokens met the Bot override (burst 1): one request
\* was admitted, the next one, back to back, was not.
C6_Witness ==
    /\ lastCall.valid /\ ~lastCall.raised /\ ~lastCall.result
    /\ lastCall.burst = 1
    /\ streak[lastCall.c].clampOn
    /\ streak[lastCall.c].clampBurst = 1
    /\ streak[lastCall.c].clampAdm = 1

\* C7: for a client with no bucket yet, repeated calls with the same effective
\* burst B and no time elapsing: exactly the first B return True, call B+1
\* (and every later one) returns False.
C7_BurstThenReject ==
    \A c \in Clients :
        streak[c].newOn =>
            streak[c].newAdm = Min(streak[c].newCalls, streak[c].newBurst)

\* BURST + 1 calls on a new bucket under the static burst: the last rejected.
C7_Witness ==
    /\ lastCall.valid /\ ~lastCall.raised /\ ~lastCall.result
    /\ streak[lastCall.c].newOn
    /\ streak[lastCall.c].newBurst = BURST
    /\ streak[lastCall.c].newCalls = BURST + 1
    /\ streak[lastCall.c].newAdm = BURST

\* C8: a bucket holding tokens in [0, B] and left alone for at least B/rate
\* seconds admits the next B calls (same rate and burst, the clock not going
\* back between them).
C8_FullRefill ==
    \A c \in Clients :
        streak[c].waitOn => streak[c].waitAdm = streak[c].waitCalls

\* BURST calls in a row admitted after a pause, the bucket empty again.
C8_Witness ==
    /\ lastCall.valid /\ ~lastCall.raised /\ lastCall.result
    /\ streak[lastCall.c].waitOn
    /\ streak[lastCall.c].waitBurst = BURST
    /\ streak[lastCall.c].waitCalls = BURST
    /\ StoredTokens(lastCall.c) < Unit

\* C9: allow_request never raises to its caller, also when the external store
\* is lost after start-up.
C9_NeverRaises == ~lastCall.raised

\* -------------------------------------------------- the request path claims
\* C2: evaluating a request is atomic per client, so no request consumes a
\* token with overrides that another request of the same client, running at
\* the same time, has already replaced in the profile.
C2_AtomicPerClient == \A t \in Threads : ~req[t].stale

C4_FullListenerStays ==
    \A l \in Listeners :
        lstate[l] = "streaming" => Count(sseClients, l) = 1

\* C5: broadcast never waits on a queue and never raises, and the event is
\* enqueued exactly once on every listener whose queue was not full.
C5_DeliversToTheOthers ==
    LET b == bcast[StatsThread]
    IN  /\ ~b.raised
        /\ pc[StatsThread] = "bcast_put" =>
               ENABLED (BcastPut(StatsThread) \/ BcastFinish(StatsThread))
        /\ \A i \in 1 .. Len(b.seen) :
               ~b.seen[i].full =>
                   /\ Count(b.sent, b.seen[i].l) = 1
                   /\ Count(b.dead, b.seen[i].l) = 0
        /\ \A l \in Listeners : Count(b.sent, l) <= 1

\* Three listeners, the queue of one of them full: broadcast has returned and
\* the other two got the event.
C5_Witness ==
    LET b == bcast[StatsThread]
    IN  /\ pc[StatsThread] = "idle"
        /\ Len(b.seen) = 3
        /\ Len(SelectSeq(b.seen, LAMBDA e : e.full)) = 1
        /\ Len(b.sent) = 2
        /\ ~b.raised

\* --------------------------------------------------- the classifier claims
\* The points of a set of signals, each counted once.
RECURSIVE PointsOf(_)
PointsOf(S) ==
    IF S = {} THEN 0
    ELSE LET x == CHOOSE y \in S : TRUE
         IN  POINTS[x] + PointsOf(S \ {x})

\* C11: the score of every profile is min(100, sum of the points of the
\* distinct signals that fired), each signal counted once, and lies in
\* [0, 100].
C11_ScoreIsSumOfDistinctSignals ==
    \A c \in Clients :
        profiles[c].exists =>
            /\ profiles[c].score =
                   Min(100, PointsOf(Range(profiles[c].active_signals)))
            /\ profiles[c].score >= 0
            /\ profiles[c].score <= 100

\* C12: once a request with an empty or blank User-Agent has been recorded
\* for a client, no_ua fires on the scoring of that request (the profile is
\* still as that scoring stored it).
C12_NoUaFires ==
    \A t \in Threads :
        (/\ req[t].scoredN > 0
         /\ req[t].scoredN = nrec[req[t].user_id]
         /\ StripsToEmpty(req[t].user_agent)) =>
            "no_ua" \in Range(profiles[req[t].user_id].active_signals)

\* C13: the tiers are the score bands of the module docstring: Normal below
\* 40, Suspicious 40-69, Abusive 70-89, Bot 90 or more.
C13_DocumentedBands ==
    \A c \in Clients :
        LET p == profiles[c]
        IN  p.exists =>
                /\ p.classification = NORMAL => p.score < 40
                /\ p.classification = SUSPICIOUS =>
                       (p.score >= 40 /\ p.score <= 69)
                /\ p.classification = ABUSIVE =>
                       (p.score >= 70 /\ p.score <= 89)
                /\ p.classification = BOT => p.score >= 90

\* ------------------------------------------- more of the request path claims
\* Whether allow_request would admit a request of client c evaluated now.
WouldAdmit(c) ==
    LET o == ProfileOverrides(profiles[c])
    IN  AllowDecision(GetBucket(c), now, o[1], o[2]).result

\* C14: an allow_request for one client leaves the bucket of every other
\* client unchanged, a record_request for one client leaves the profile of
\* every other client unchanged, and the requests of other clients do not
\* change whether a client's next request is admitted.
C14_PerClientIsolation ==
    [][\A c \in Clients :
          LET allowed(t) == /\ pc[t] = "allow" /\ pc'[t] # "allow"
                            /\ req[t].user_id = c
              recorded(t) == /\ pc[t] = "record" /\ pc'[t] # "record"
                             /\ req[t].user_id = c
          IN  /\ (local'[c] # local[c] \/ redisBuckets'[c] # redisBuckets[c])
                     => \E t \in Threads : allowed(t)
              /\ profiles'[c] # profiles[c]
                     => \E t \in Threads : recorded(t)
              /\ WouldAdmit(c)' # WouldAdmit(c)
                     => \/ now' # now
                        \/ \E t \in Threads : allowed(t) \/ recorded(t)
      ]_vars

\* Two clients have a bucket and a profile each, the one flagged, the other
\* not.
C14_Witness ==
    /\ profiles["c1"].exists /\ profiles["c2"].exists
    /\ GetBucket("c1") # NoData /\ GetBucket("c2") # NoData
    /\ profiles["c1"].classification # NORMAL
    /\ profiles["c2"].classification = NORMAL

\* C15: the (dynamic_rate, dynamic_burst) of every profile is the table value
\* of its stored classification (Bot 0.2/1, Abusive 0.5/2, Suspicious 3.0/5,
\* Normal none/none), and an allow_request for a client whose stored
\* classification is Normal, or that has no profile, runs with the static
\* rate and burst.
C15_LimitsFollowClassification ==
    /\ \A c \in Clients :
           LET p == profiles[c]
           IN  p.exists =>
                   /\ p.classification = BOT =>
                          (p.dynamic_rate = 2 /\ p.dynamic_burst = 1)
                   /\ p.classification = ABUSIVE =>
                          (p.dynamic_rate = 5 /\ p.dynamic_burst = 2)
                   /\ p.classification = SUSPICIOUS =>
                          (p.dynamic_rate = 30 /\ p.dynamic_burst = 5)
                   /\ p.classification = NORMAL =>
                          (p.dynamic_rate = None /\ p.dynamic_burst = None)
    /\ \A t \in Threads :
           LET p == profiles[req[t].user_id]
           IN  (/\ pc[t] = "allow"
                /\ req[t].readN = nrec[req[t].user_id]
                /\ (~p.exists \/ p.classification = NORMAL)) =>
                   /\ EffRate(req[t].dyn_rate) = RATE * Unit
                   /\ EffBurst(req[t].dyn_burst) = BURST

\* A request of a client with a Normal profile is about to consume its token
\* with what get_profile read from that profile.
C15_Witness ==
    \E t \in Threads :
        /\ pc[t] = "allow"
        /\ req[t].readN = nrec[req[t].user_id]
        /\ profiles[req[t].user_id].exists
        /\ profiles[req[t].user_id].classification = NORMAL

\* ----------------------------------------------- more of the bucket claims
\* C16: a call made when the clock reads earlier than the stored last_refill
\* takes the elapsed time as 0: the refill does not lower the token count
\* (below the stored count, or the burst ceiling of the call if that is
\* lower), and the stored count stays >= 0.
C16_SkewTreatedAsZero ==
    [][\A c \in BucketClients :
          LET data == GetBucket(c)
          IN  (/\ data.kind # "none"
               /\ now < data.last_refill
               /\ GetBucket(c)' # data) =>
                  /\ lastCall'.refilled >=
                         Min(data.tokens, Tenths(lastCall'.burst))
                  /\ (data.tokens >= 0 => GetBucket(c)'.tokens >= 0)
      ]_vars

\* C17: every call that returns, admitted or rejected, sets last_refill to
\* the time of the call; a rejected call stores the refilled tokens as they
\* are (an admitted one a token less); so rejected calls in a row credit what
\* one call at the time of the last of them would: the rate times the time
\* since the first, under the burst ceiling.
C17_CreditedOnce ==
    /\ (lastCall.valid /\ ~lastCall.raised) =>
           /\ GetBucket(lastCall.c).last_refill = lastCall.at
           /\ StoredTokens(lastCall.c) =
                  lastCall.refilled - (IF lastCall.result THEN Unit ELSE 0)
    /\ \A c \in BucketClients :
           (run.rejOn /\ GetBucket(c).kind # "none") =>
               StoredTokens(c) =
                   Min(Tenths(EffBurst(run.override_burst)),
                       run.rejBase + EffRate(run.override_rate)
                                         * GetBucket(c).last_refill)

\* Rejected calls at three different times, each crediting the time since
\* the one before.
C17_Witness ==
    /\ lastCall.valid /\ ~lastCall.raised /\ ~lastCall.result
    /\ run.rejOn /\ run.rejTimes = 3
    /\ StoredTokens(lastCall.c) > run.rejBase
    /\ StoredTokens(lastCall.c) < Unit

\* C20: with one rate r and burst B and a clock that does not go back, the
\* calls admitted in any interval of length T are at most B + r*T.
C20_RateBound ==
    run.winOn =>
        Unit * run.winAdm <= Tenths(EffBurst(run.override_burst))
                             + EffRate(run.override_rate) * (now - run.winT0)

\* Under the Bot override (0.2, 1) a second request is admitted 5 seconds
\* after the first.
C20_Witness ==
    /\ run.on /\ run.override_rate = 2 /\ run.override_burst = 1
    /\ run.winOn /\ run.winAdm = 2
    /\ now - run.winT0 = 5
    /\ lastCall.valid /\ lastCall.result /\ lastCall.at = now

\* ------------------------------------------- more of the broadcast claims
\* C18: _sse_lock is never held while an event is being enqueued on a
\* listener's queue.
C18_LockFreeWhileEnqueueing ==
    \A t \in Publishers : pc[t] = "bcast_put" => sseLock # t

\* C19: blocked_count never goes down; the record_request of a request adds
\* exactly 1 to it if allow_request rejected that request and leaves it as it
\* is if the request was admitted, and nothing else changes it; a profile
\* whose blocked_count has reached 8 has block_many among its signals.
C19_BlockedCountsRejections ==
    /\ [](\A c \in Clients :
            (profiles[c].exists /\ profiles[c].blocked_count >= BLOCK_ABUSIVE)
                => "block_many" \in Range(profiles[c].active_signals))
    /\ [][\A c \in Clients :
            LET before == profiles[c].blocked_count
                after == profiles'[c].blocked_count
                recorded(t) == /\ pc[t] = "record" /\ pc'[t] # "record"
                               /\ req[t].user_id = c
            IN  /\ after >= before
                /\ \A t \in Threads :
                       recorded(t) => after = before + Bit(~req[t].allowed)
                /\ (\A t \in Threads : ~recorded(t)) => after = before
        ]_vars

\* A rejected request has been recorded, the 8th or a later one of its
\* client, and block_many is among the signals.
C19_Witness ==
    \E t \in Threads :
        /\ req[t].scoredN > 0 /\ req[t].scoredN = nrec[req[t].user_id]
        /\ ~req[t].allowed
        /\ profiles[req[t].user_id].blocked_count >= BLOCK_ABUSIVE
        /\ "block_many" \in Range(profiles[req[t].user_id].active_signals)

=============================================================================
